---- MODULE Spec2Model ----
(***************************************************************************)
(* Model of the staging deployer (src/lib/deploy.js, src/lib/ssh.js,      *)
(* src/lib/ai.js, src/index.js): the deploy() sequence, the remote .env   *)
(* mutation done by updateRemoteEnv() and the pure helpers they use.      *)
(* Strings are sequences of one-character strings, so that the regular    *)
(* expressions and the shell quoting of the source are computed, not      *)
(* assumed.                                                               *)
(***************************************************************************)
EXTENDS Integers, Sequences, FiniteSets, TLC

(***************************************************************************)
(* Bounds of the model                                                     *)
(***************************************************************************)
\* number of menu actions the user takes before choosing "Continue Deployment"
MaxPrompts == 1
\* number of successive calls of updateRemoteEnv
MaxCalls == 2
\* number of lines of the remote .env file at the start of the run
MaxLines == 2
\* length of the strings the pure helpers are applied to
MaxStr == 3

(***************************************************************************)
(* Characters and strings                                                  *)
(***************************************************************************)
Lower == {"a","b","c","d","e","f","g","h","i","j","k","l","m",
          "n","o","p","q","r","s","t","u","v","w","x","y","z"}
Upper == {"A","B","C","D","E","F","G","H","I","J","K","L","M",
          "N","O","P","Q","R","S","T","U","V","W","X","Y","Z"}
Digit == {"0","1","2","3","4","5","6","7","8","9"}
Space == {" ", "\t", "\n"}

SQ == "'"
BS == "\\"

\* the value null / undefined / "" of a string-valued JavaScript variable:
\* all three are falsy, which is the only way the source tells them apart
\* from a proper string
Null == <<>>

RECURSIVE Concat(_)
Concat(ss) == IF ss = <<>> THEN <<>> ELSE Head(ss) \o Concat(Tail(ss))

HasPrefix(s, p) == Len(s) >= Len(p) /\ SubSeq(s, 1, Len(p)) = p

HasSuffix(s, p) == Len(s) >= Len(p) /\ SubSeq(s, Len(s) - Len(p) + 1, Len(s)) = p

\* String.prototype.toLowerCase on the letters of the model
LowerOf(c) ==
  CASE c = "N" -> "n" [] c = "E" -> "e" [] c = "S" -> "s" [] c = "T" -> "t"
    [] c = "J" -> "j" [] c = "X" -> "x" [] c = "P" -> "p" [] c = "R" -> "r"
    [] c = "A" -> "a" [] c = "I" -> "i" [] c = "L" -> "l"
    [] OTHER -> c

toLowerCase(s) == [i \in 1..Len(s) |-> LowerOf(s[i])]

(***************************************************************************)
(* Pure helpers of src/lib/deploy.js                                       *)
(***************************************************************************)
\* the pattern without its anchors: one allowed character is enough
isValidProjectNameUnanchored(name) ==
  \E i \in 1..Len(name) : name[i] \in Lower \cup Upper \cup Digit \cup {".", "_", "-"}

\* /^[a-zA-Z0-9._-]+$/.test(name)
isValidProjectName(name) ==
  /\ Len(name) >= 1
  /\ \A i \in 1..Len(name) : name[i] \in Lower \cup Upper \cup Digit \cup {".", "_", "-"}

\* /^[a-zA-Z_][a-zA-Z0-9_]*$/.test(key)
isValidEnvKey(key) ==
  /\ Len(key) >= 1
  /\ key[1] \in Lower \cup Upper \cup {"_"}
  /\ \A i \in 2..Len(key) : key[i] \in Lower \cup Upper \cup Digit \cup {"_"}

\* arg.replace(/'/g, "'\\''")
ReplaceQuotes(arg) ==
  Concat([i \in 1..Len(arg) |-> IF arg[i] = SQ THEN <<SQ, BS, SQ, SQ>> ELSE <<arg[i]>>])

\* wrapping in single quotes without replacing the embedded ones
escapeShellArgUnreplaced(arg) == <<SQ>> \o arg \o <<SQ>>

\* `'${arg.replace(/'/g, "'\\''")}'`
escapeShellArg(arg) == <<SQ>> \o ReplaceQuotes(arg) \o <<SQ>>

(***************************************************************************)
(* The remote shell: how the login shell reads a command line built by the *)
(* source, and what grep / echo / mv do to the files of the project        *)
(* directory.                                                              *)
(***************************************************************************)
\* POSIX word splitting and quote removal of a piece of a command line:
\* inside '...' every character is literal, outside \c is the literal c,
\* unquoted blanks separate words.  ok is FALSE for an unterminated quote.
RECURSIVE ShParse(_, _, _, _, _, _)
ShParse(s, i, inQuote, cur, hasCur, words) ==
  IF i > Len(s)
  THEN [ok |-> ~inQuote, words |-> IF hasCur THEN Append(words, cur) ELSE words]
  ELSE IF inQuote
       THEN IF s[i] = SQ
            THEN ShParse(s, i + 1, FALSE, cur, TRUE, words)
            ELSE ShParse(s, i + 1, TRUE, Append(cur, s[i]), TRUE, words)
       ELSE IF s[i] = SQ
            THEN ShParse(s, i + 1, TRUE, cur, TRUE, words)
            ELSE IF s[i] = BS
                 THEN IF i + 1 <= Len(s)
                      THEN ShParse(s, i + 2, FALSE, Append(cur, s[i + 1]), TRUE, words)
                      ELSE ShParse(s, i + 1, FALSE, cur, hasCur, words)
                 ELSE IF s[i] \in Space
                      THEN ShParse(s, i + 1, FALSE, <<>>, FALSE,
                                   IF hasCur THEN Append(words, cur) ELSE words)
                      ELSE ShParse(s, i + 1, FALSE, Append(cur, s[i]), TRUE, words)

ShellWords(s) == ShParse(s, 1, FALSE, <<>>, FALSE, <<>>)

\* the line `echo <words>` writes: its arguments joined by single blanks
RECURSIVE JoinWords(_)
JoinWords(ws) ==
  IF ws = <<>> THEN <<>>
  ELSE IF Len(ws) = 1 THEN ws[1]
  ELSE ws[1] \o <<" ">> \o JoinWords(Tail(ws))

\* a remote file: absent, or a sequence of newline-terminated lines
NoFile == [exists |-> FALSE, lines |-> <<>>]

File(ls) == [exists |-> TRUE, lines |-> ls]

\* the lines grep "^KEY=" selects
KeyLines(ls, key) == SelectSeq(ls, LAMBDA l : HasPrefix(l, key \o <<"=">>))

\* the lines grep -v "^KEY=" selects
OtherLines(ls, key) == SelectSeq(ls, LAMBDA l : ~HasPrefix(l, key \o <<"=">>))

\* exit status of grep: 0 when a line was selected, 1 when none was, 2 when
\* the file cannot be read
GrepStatus(f, selected) ==
  IF ~f.exists THEN 2 ELSE IF selected # <<>> THEN 0 ELSE 1

(***************************************************************************)
(* Inputs of the model                                                     *)
(***************************************************************************)
KeyA == <<"A">>
KeyB == <<"B">>
KeyBad == <<"1", "A">>
EnvKeys == {KeyA, KeyB, KeyBad}

EnvValues == {<<"2">>, <<"a", SQ, " ", "$">>}

LineA1 == <<"A", "=", "1">>
LineAB == <<"A", "B", "=", "1">>
LineComment == <<"#">>
EnvLines == {LineA1, LineAB, LineComment}

RECURSIVE SeqsUpTo(_, _)
SeqsUpTo(S, n) ==
  IF n = 0 THEN {<<>>}
  ELSE LET shorter == SeqsUpTo(S, n - 1)
       IN  shorter \cup {Append(s, x) : s \in shorter, x \in S}

EnvFiles == {NoFile} \cup {File(ls) : ls \in SeqsUpTo(EnvLines, MaxLines)}

Demo == <<"d", "e", "m", "o">>
BadProject == <<".", ".", "/", "e">>
\* options.project as commander hands it over (Null: no --project)
ProjectOpts == {Null, Demo, BadProject}

NestJs == <<"n", "e", "s", "t", "j", "s">>
NestJsMixed == <<"N", "e", "s", "t", "J", "S">>
ExpressJs == <<"e", "x", "p", "r", "e", "s", "s", "j", "s">>
Rails == <<"r", "a", "i", "l", "s">>
\* options.framework (Null: no --framework)
Frameworks == {Null, NestJs, NestJsMixed, ExpressJs, Rails}

Options == [project : ProjectOpts, framework : Frameworks, ai : BOOLEAN, yes : BOOLEAN]

UrlSsh == <<"g", "@", "h", ":", "O", "/", "R", ".", "g", "i", "t">>
UrlHttps == <<"h", "t", "t", "p", "s", ":", "/", "/", "h", "/", "O", "/", "R">>
UrlShort == <<"h", "t", "t", "p", "s", ":", "/", "/", "h", "/", "O">>
\* what `git config --get remote.origin.url` gives: it fails, or prints a line
GitResults == {[ok |-> FALSE, out |-> <<>>]}
              \cup {[ok |-> TRUE, out |-> u \o <<"\n">>] : u \in {UrlSsh, UrlHttps, UrlShort}}

SlugOR == <<"O", "/", "R">>
\* repo-map.json: absent (empty map), or one entry for Owner/Repo
RepoMaps == {[slug |-> Null, project |-> Null],
             [slug |-> SlugOR, project |-> Demo],
             [slug |-> SlugOR, project |-> BadProject]}

\* repoMap[repo]
Lookup(map, repo) == IF map.slug # Null /\ map.slug = repo THEN map.project ELSE Null

\* process.env.SSH_HOST, process.env.SSH_KEY_PATH, process.env.GEMINI_API_KEY
EnvVarValues == {Null, <<"x">>}

(***************************************************************************)
(* getGitRepoInfo                                                          *)
(***************************************************************************)
RECURSIVE TrimLeft(_)
TrimLeft(s) == IF s # <<>> /\ Head(s) \in Space THEN TrimLeft(Tail(s)) ELSE s

RECURSIVE TrimRight(_)
TrimRight(s) ==
  IF s # <<>> /\ s[Len(s)] \in Space THEN TrimRight(SubSeq(s, 1, Len(s) - 1)) ELSE s

\* String.prototype.trim
Trim(s) == TrimRight(TrimLeft(s))

DotGit == <<".", "g", "i", "t">>

\* the text after position i is  [^/]+ / [^/]+  up to the end of the string
MatchesAt(url, i) ==
  /\ url[i] \in {":", "/"}
  /\ \E j \in (i + 2)..(Len(url) - 1) :
       /\ url[j] = "/"
       /\ \A k \in (i + 1)..Len(url) : k # j => url[k] # "/"

\* remoteUrl.match(/[:/]([^/]+)\/([^/]+?)(\.git)?$/) and `${match[1]}/${match[2]}`:
\* the leftmost position that matches; the lazy second group gives up a
\* trailing ".git" when something is left in front of it
RepoSlug(url) ==
  LET starts == {i \in 1..Len(url) : MatchesAt(url, i)}
  IN  IF starts = {} THEN Null
      ELSE LET i == CHOOSE m \in starts : \A n \in starts : m <= n
               j == CHOOSE n \in (i + 2)..(Len(url) - 1) : url[n] = "/"
               tail == SubSeq(url, j + 1, Len(url))
               repo == IF HasSuffix(tail, DotGit) /\ Len(tail) > Len(DotGit)
                       THEN SubSeq(tail, 1, Len(tail) - Len(DotGit))
                       ELSE tail
           IN  SubSeq(url, i + 1, j - 1) \o <<"/">> \o repo

getGitRepoInfo(git) == IF git.ok THEN RepoSlug(Trim(git.out)) ELSE Null

(***************************************************************************)
(* State                                                                   *)
(***************************************************************************)
VARIABLES
  options,    \* the options commander passes to deploy()
  project,    \* the local variable project of deploy()
  host,       \* the local variable host of deploy(), Null before it is set
  privateKeyPath, \* the local variable privateKeyPath, Null before it is set
  pc,         \* the position of the run in deploy() / updateRemoteEnv()
  session,    \* the shared NodeSSH object: "none", "open" or "closed"
  log,        \* what was asked of the session, in order, and whether the
              \* promise resolved (ok) or was rejected
  pullCode,   \* exit status of the git pull, NoStatus before it resolved
  exitCode,   \* exit code of the process, NoStatus while it runs
  env,        \* remote file /var/www/<project>/.env
  tmp,        \* remote file /var/www/<project>/.env.tmp
  prompts,    \* calls of updateRemoteEnv / menu actions so far
  summary,    \* what generateDeploymentSummary did
  ukey,       \* updateRemoteEnv: argument key
  uval,       \* updateRemoteEnv: argument value
  ures,       \* updateRemoteEnv: how the current / last call went: "idle",
              \* "running", "invalid" (key refused), "ok" (replace command
              \* ran to its end), "stopped" (its && list ended early),
              \* "fallback" (catch block entered), "threw"
  envStart,   \* .env when the current / last call of updateRemoteEnv began
  tmpStart,   \* .env.tmp at that moment
  logStart,   \* length of log at that moment
  prev,       \* key, value, outcome and resulting .env of the call before
  arg,        \* the input a pure helper is applied to on its own
  result      \* what the helper returned for it

vars == <<options, project, host, privateKeyPath, pc, session, log, pullCode, exitCode, env, tmp,
          prompts, summary, ukey, uval, ures, envStart, tmpStart, logStart, prev,
          arg, result>>

deployVars == <<options, project, host, privateKeyPath, session, pullCode, exitCode, summary>>
remoteFiles == <<env, tmp>>
updateVars == <<ukey, uval, ures, envStart, tmpStart, logStart, prev>>
updateArgs == <<ukey, uval, envStart, tmpStart, logStart, prev>>
fnVars == <<arg, result>>

\* no helper is being applied on its own
NoArg == [fn |-> "none", ok |-> TRUE, s |-> Null]
NoResult == [fn |-> "none", str |-> Null, bool |-> FALSE]

\* no exit status (yet)
NoStatus == -1
\* exit statuses a remote command whose effect the model does not follow
\* may have
ExitStatuses == {0, 1}

Entry(op, ok) == [op |-> op, project |-> project, ok |-> ok]

NoCall == [key |-> Null, val |-> Null, res |-> "idle", after |-> NoFile]

\* deploy() is entered; the remote .env has a line of key A and a line of
\* key AB (SpecEnv below starts from every file of EnvFiles)
Init ==
  /\ options \in Options
  /\ project = options.project
  /\ host = Null
  /\ privateKeyPath = Null
  /\ pc = "start"
  /\ session = "none"
  /\ log = <<>>
  /\ pullCode = NoStatus
  /\ exitCode = NoStatus
  /\ env = File(<<LineA1, LineAB>>)
  /\ tmp = NoFile
  /\ prompts = 0
  /\ summary = "none"
  /\ ukey = Null
  /\ uval = Null
  /\ ures = "idle"
  /\ envStart = NoFile
  /\ tmpStart = NoFile
  /\ logStart = 0
  /\ prev = NoCall
  /\ arg = NoArg
  /\ result = NoResult

(***************************************************************************)
(* src/lib/ssh.js                                                          *)
(***************************************************************************)
\* process.exit(1)
Exit1 ==
  /\ pc' = "exited"
  /\ exitCode' = 1

\* await runCommand(command, cwd) / await ssh.execCommand(command) for a
\* command whose effect on the remote files the model does not follow: the
\* promise resolves whatever the exit status is (the callers never read
\* it) and is rejected on a session-level failure
runCommand(op, next, onThrow) ==
  \E ok \in BOOLEAN :
    /\ log' = Append(log, Entry(op, ok))
    /\ pc' = IF ok THEN next ELSE onThrow

(***************************************************************************)
(* deploy(): up to the connection                                          *)
(***************************************************************************)
ResolveProject ==
  /\ pc = "start"
  /\ IF project = Null
     THEN \E git \in GitResults, repoMap \in RepoMaps :
            LET repo == getGitRepoInfo(git)
            IN  IF repo # Null /\ Lookup(repoMap, repo) # Null
                THEN /\ project' = Lookup(repoMap, repo)
                     /\ pc' = "validate"
                     /\ UNCHANGED exitCode
                ELSE /\ Exit1
                     /\ UNCHANGED project
     ELSE /\ pc' = "validate"
          /\ UNCHANGED <<project, exitCode>>
  /\ UNCHANGED <<fnVars, options, host, privateKeyPath, session, log, pullCode, summary, prompts>>
  /\ UNCHANGED <<remoteFiles, updateVars>>

\* deploy() without the check of the project name
ValidateProjectSkipped ==
  /\ pc = "validate"
  /\ pc' = "creds"
  /\ UNCHANGED <<fnVars, deployVars, log, prompts, remoteFiles, updateVars>>

\* if (!isValidProjectName(project)) process.exit(1)
ValidateProject ==
  /\ pc = "validate"
  /\ IF ~isValidProjectName(project)
     THEN Exit1
     ELSE /\ pc' = "creds"
          /\ UNCHANGED exitCode
  /\ UNCHANGED <<fnVars, options, host, privateKeyPath, project, session, log, pullCode, summary, prompts>>
  /\ UNCHANGED <<remoteFiles, updateVars>>

\* const host = process.env.SSH_HOST; const privateKeyPath =
\* process.env.SSH_KEY_PATH; if (!host || !privateKeyPath) process.exit(1)
LoadCredentials ==
  /\ pc = "creds"
  /\ host' \in EnvVarValues
  /\ privateKeyPath' \in EnvVarValues
  /\ IF host' = Null \/ privateKeyPath' = Null
     THEN Exit1
     ELSE /\ pc' = "connect"
          /\ UNCHANGED exitCode
  /\ UNCHANGED <<fnVars, options, project, session, log, pullCode, summary, prompts>>
  /\ UNCHANGED <<remoteFiles, updateVars>>

\* connectToServer: ssh.connect resolves, or rejects and the error is rethrown
connectToServer ==
  /\ pc = "connect"
  /\ \E ok \in BOOLEAN :
       /\ log' = Append(log, Entry("connect", ok))
       /\ session' = IF ok THEN "open" ELSE session
       /\ pc' = IF ok THEN "whoami" ELSE "catch"
  /\ UNCHANGED <<fnVars, options, host, privateKeyPath, project, pullCode, exitCode, summary, prompts>>
  /\ UNCHANGED <<remoteFiles, updateVars>>

(***************************************************************************)
(* deploy(): the commands before the pull, and the pull                    *)
(***************************************************************************)
Whoami ==
  /\ pc = "whoami"
  /\ runCommand("whoami", "sudo", "catch")
  /\ UNCHANGED <<fnVars, deployVars, prompts, remoteFiles, updateVars>>

SudoI ==
  /\ pc = "sudo"
  /\ runCommand("sudo -i", "safeDirs", "catch")
  /\ UNCHANGED <<fnVars, deployVars, prompts, remoteFiles, updateVars>>

\* ssh.execCommand("git config --global --get-all safe.directory") inside
\* its own try: a rejection is swallowed, stdout decides whether the
\* directory is added
GetSafeDirs ==
  /\ pc = "safeDirs"
  /\ \/ \E listed \in BOOLEAN :
          /\ log' = Append(log, Entry("git config --get-all safe.directory", TRUE))
          /\ pc' = IF listed THEN "chown" ELSE "addSafeDir"
     \/ /\ log' = Append(log, Entry("git config --get-all safe.directory", FALSE))
        /\ pc' = "chown"
  /\ UNCHANGED <<fnVars, deployVars, prompts, remoteFiles, updateVars>>

AddSafeDir ==
  /\ pc = "addSafeDir"
  /\ runCommand("git config --add safe.directory", "chown", "chown")
  /\ UNCHANGED <<fnVars, deployVars, prompts, remoteFiles, updateVars>>

Chown ==
  /\ pc = "chown"
  /\ runCommand("sudo chown", "pull", "pull")
  /\ UNCHANGED <<fnVars, deployVars, prompts, remoteFiles, updateVars>>

\* a pull whose non-zero exit status is treated as an error
PullStrict ==
  /\ pc = "pull"
  /\ \/ \E code \in ExitStatuses :
          /\ log' = Append(log, Entry("git pull origin staging", TRUE))
          /\ pullCode' = code
          /\ pc' = IF code # 0 THEN "catch"
                   ELSE IF ~options.yes THEN "menu" ELSE "framework"
     \/ /\ log' = Append(log, Entry("git pull origin staging", FALSE))
        /\ pc' = "catch"
        /\ UNCHANGED pullCode
  /\ UNCHANGED <<fnVars, options, host, privateKeyPath, project, session, exitCode, summary, prompts>>
  /\ UNCHANGED <<remoteFiles, updateVars>>

\* await runCommand("git pull origin staging", projectPath), then `if (!yes)`:
\* the exit status of the pull is logged by runCommand and not looked at
Pull ==
  /\ pc = "pull"
  /\ \/ \E code \in ExitStatuses :
          /\ log' = Append(log, Entry("git pull origin staging", TRUE))
          /\ pullCode' = code
          /\ pc' = IF ~options.yes THEN "menu" ELSE "framework"
     \/ /\ log' = Append(log, Entry("git pull origin staging", FALSE))
        /\ pc' = "catch"
        /\ UNCHANGED pullCode
  /\ UNCHANGED <<fnVars, options, host, privateKeyPath, project, session, exitCode, summary, prompts>>
  /\ UNCHANGED <<remoteFiles, updateVars>>

(***************************************************************************)
(* deploy(): the interactive loop                                          *)
(***************************************************************************)
\* the choices array
Choices ==
  (IF options.framework = NestJs
   THEN {"Run Prisma Generate", "Run Prisma DB Push", "Run Build"} ELSE {})
  \cup {"Update .env", "Continue Deployment"}

MenuAction(action, op) ==
  /\ pc = "menu"
  /\ prompts < MaxPrompts
  /\ action \in Choices
  /\ prompts' = prompts + 1
  /\ runCommand(op, "menu", "catch")
  /\ UNCHANGED <<fnVars, deployVars, remoteFiles, updateVars>>

MenuPrismaGenerate == MenuAction("Run Prisma Generate", "npx prisma generate")

MenuPrismaDbPush == MenuAction("Run Prisma DB Push", "npx prisma db push")

MenuBuild == MenuAction("Run Build", "yarn build")

MenuContinue ==
  /\ pc = "menu"
  /\ "Continue Deployment" \in Choices
  /\ pc' = "framework"
  /\ UNCHANGED <<fnVars, deployVars, log, prompts, remoteFiles, updateVars>>

(***************************************************************************)
(* updateRemoteEnv(projectPath, key, value)                                *)
(***************************************************************************)
\* const safeLine = `${safeKey}=${value}`
safeLine == ukey \o <<"=">> \o uval

\* const escapedLine = escapeShellArg(safeLine)
escapedLine == escapeShellArg(safeLine)

\* what `echo ${escapedLine} >> file` does to the file: it is created when
\* absent and gets one more line; a command line the shell cannot read
\* changes nothing
EchoAppend(f, token) ==
  LET parsed == ShellWords(token)
  IN  IF parsed.ok THEN File(f.lines \o <<JoinWords(parsed.words)>>) ELSE f

EchoStatus(token) == IF ShellWords(token).ok THEN 0 ELSE 2

\* the promise of the command issued last is rejected after all
RejectLast == log' = [log EXCEPT ![Len(log)].ok = FALSE]

\* updateRemoteEnv without the key validation at its head
updateRemoteEnvUnchecked(key, value) ==
  /\ ukey' = key
  /\ uval' = value
  /\ ures' = "running"
  /\ pc' = "probe"
  /\ envStart' = env
  /\ tmpStart' = tmp
  /\ logStart' = Len(log)
  /\ prev' = [key |-> ukey, val |-> uval, res |-> ures, after |-> env]

\* the call and the key validation at the head of updateRemoteEnv: an
\* invalid key is reported and the function returns
updateRemoteEnv(key, value) ==
  /\ ukey' = key
  /\ uval' = value
  /\ IF ~isValidEnvKey(key)
     THEN /\ ures' = "invalid"
          /\ pc' = "updated"
     ELSE /\ ures' = "running"
          /\ pc' = "probe"
  /\ envStart' = env
  /\ tmpStart' = tmp
  /\ logStart' = Len(log)
  /\ prev' = [key |-> ukey, val |-> uval, res |-> ures, after |-> env]

\* the "Update .env" menu action: the two prompts, then the call
MenuUpdateEnv ==
  /\ pc = "menu"
  /\ prompts < MaxPrompts
  /\ "Update .env" \in Choices
  /\ prompts' = prompts + 1
  /\ \E key \in EnvKeys, value \in EnvValues : updateRemoteEnv(key, value)
  /\ UNCHANGED <<fnVars, deployVars, log, remoteFiles>>

\* a caller that has the session open calls updateRemoteEnv again and again
CallUpdateEnv ==
  /\ pc = "menu"
  /\ prompts < MaxCalls
  /\ prompts' = prompts + 1
  /\ \E key \in EnvKeys, value \in EnvValues : updateRemoteEnv(key, value)
  /\ UNCHANGED <<fnVars, deployVars, log, remoteFiles>>

\* await ssh.execCommand(checkCmd): the promise resolves whatever grep's
\* exit status is, and control stays in the try block; a rejection enters
\* the catch block
Probe ==
  /\ pc = "probe"
  /\ \/ /\ log' = Append(log, Entry("grep", TRUE))
        /\ pc' = "replace"
        /\ UNCHANGED ures
     \/ /\ log' = Append(log, Entry("grep", FALSE))
        /\ pc' = "append"
        /\ ures' = "fallback"
  /\ UNCHANGED <<fnVars, deployVars, prompts, remoteFiles, updateArgs>>

\* await runCommand(safeUpdateCmd, projectPath): the command is handed to
\* the session, or the call is rejected and the catch block is entered
ReplaceIssue ==
  /\ pc = "replace"
  /\ \/ /\ log' = Append(log, Entry("replace", TRUE))
        /\ pc' = "rFilter"
        /\ UNCHANGED ures
     \/ /\ log' = Append(log, Entry("replace", FALSE))
        /\ pc' = "append"
        /\ ures' = "fallback"
  /\ UNCHANGED <<fnVars, deployVars, prompts, remoteFiles, updateArgs>>

\* the session is lost while the remote command runs: the remote shell
\* stops where it is and the promise is rejected
ReplaceDropped ==
  /\ pc \in {"rFilter", "rEcho", "rMv"}
  /\ RejectLast
  /\ pc' = "append"
  /\ ures' = "fallback"
  /\ UNCHANGED <<fnVars, deployVars, prompts, remoteFiles, updateArgs>>

\* the filter rewriting .env itself instead of the temporary file
ReplaceFilterInPlace ==
  /\ pc = "rFilter"
  /\ LET others == OtherLines(env.lines, ukey)
     IN  /\ env' = File(others)
         /\ IF GrepStatus(env, others) = 0
            THEN /\ pc' = "rEcho"
                 /\ UNCHANGED ures
            ELSE /\ pc' = "updated"
                 /\ ures' = "stopped"
  /\ UNCHANGED <<fnVars, deployVars, log, prompts, tmp, updateArgs>>

\* grep -v "^KEY=" .env > .env.tmp : the redirection creates or empties
\* .env.tmp, grep writes the other lines to it; a non-zero status ends the
\* && list, the promise resolves and updateRemoteEnv returns
ReplaceFilter ==
  /\ pc = "rFilter"
  /\ LET others == OtherLines(env.lines, ukey)
     IN  /\ tmp' = File(others)
         /\ IF GrepStatus(env, others) = 0
            THEN /\ pc' = "rEcho"
                 /\ UNCHANGED ures
            ELSE /\ pc' = "updated"
                 /\ ures' = "stopped"
  /\ UNCHANGED <<fnVars, deployVars, log, prompts, env, updateArgs>>

\* && echo ${escapedLine} >> .env.tmp
ReplaceEcho ==
  /\ pc = "rEcho"
  /\ tmp' = EchoAppend(tmp, escapedLine)
  /\ IF EchoStatus(escapedLine) = 0
     THEN /\ pc' = "rMv"
          /\ UNCHANGED ures
     ELSE /\ pc' = "updated"
          /\ ures' = "stopped"
  /\ UNCHANGED <<fnVars, deployVars, log, prompts, env, updateArgs>>

\* && mv .env.tmp .env ; the promise resolves and updateRemoteEnv returns
ReplaceMv ==
  /\ pc = "rMv"
  /\ env' = tmp
  /\ tmp' = NoFile
  /\ pc' = "updated"
  /\ ures' = "ok"
  /\ UNCHANGED <<fnVars, deployVars, log, prompts, updateArgs>>

\* the catch block: await runCommand(appendCmd, projectPath); a rejection
\* leaves updateRemoteEnv and reaches the catch block of deploy
AppendLine ==
  /\ pc = "append"
  /\ \/ /\ log' = Append(log, Entry("append", TRUE))
        /\ env' = EchoAppend(env, escapedLine)
        /\ pc' = "updated"
        /\ UNCHANGED ures
     \/ /\ log' = Append(log, Entry("append", FALSE))
        /\ pc' = "catch"
        /\ ures' = "threw"
        /\ UNCHANGED env
  /\ UNCHANGED <<fnVars, deployVars, prompts, tmp, updateArgs>>

\* updateRemoteEnv has returned: the loop prompts again
LoopBack ==
  /\ pc = "updated"
  /\ pc' = "menu"
  /\ UNCHANGED <<fnVars, deployVars, log, prompts, remoteFiles, updateVars>>

(***************************************************************************)
(* deploy(): framework tasks, restart, summary, catch and finally          *)
(***************************************************************************)
\* if (framework) { if (nestjs or expressjs, lower-cased) prisma generate
FrameworkPrisma ==
  /\ pc = "framework"
  /\ IF /\ options.framework # Null
        /\ toLowerCase(options.framework) \in {NestJs, ExpressJs}
     THEN runCommand("npx prisma generate", "fwBuild", "catch")
     ELSE /\ pc' = "fwBuild"
          /\ UNCHANGED log
  /\ UNCHANGED <<fnVars, deployVars, prompts, remoteFiles, updateVars>>

\* the build step comparing the framework name as given
FrameworkBuildCaseSensitive ==
  /\ pc = "fwBuild"
  /\ IF options.framework = NestJs
     THEN runCommand("yarn build", "restart", "catch")
     ELSE /\ pc' = "restart"
          /\ UNCHANGED log
  /\ UNCHANGED <<fnVars, deployVars, prompts, remoteFiles, updateVars>>

\* if (nestjs, lower-cased) yarn build }
FrameworkBuild ==
  /\ pc = "fwBuild"
  /\ IF /\ options.framework # Null
        /\ toLowerCase(options.framework) = NestJs
     THEN runCommand("yarn build", "restart", "catch")
     ELSE /\ pc' = "restart"
          /\ UNCHANGED log
  /\ UNCHANGED <<fnVars, deployVars, prompts, remoteFiles, updateVars>>

\* pm2 restart ${project} || pm2 restart index, then `if (ai)`
Restart ==
  /\ pc = "restart"
  /\ runCommand("pm2 restart", IF options.ai THEN "ai" ELSE "finally", "catch")
  /\ UNCHANGED <<fnVars, deployVars, prompts, remoteFiles, updateVars>>

\* generateDeploymentSummary: without a key it returns at once; an error
\* of the API is caught and logged
generateDeploymentSummary ==
  /\ pc = "ai"
  /\ \E genAiKey \in EnvVarValues, apiOk \in BOOLEAN :
       summary' = IF genAiKey = Null THEN "skipped"
                  ELSE IF apiOk THEN "printed" ELSE "failed"
  /\ pc' = "finally"
  /\ UNCHANGED <<fnVars, options, host, privateKeyPath, project, session, pullCode, exitCode, log, prompts>>
  /\ UNCHANGED <<remoteFiles, updateVars>>

\* a catch block that leaves without the finally block being run
CatchSkipsDispose ==
  /\ pc = "catch"
  /\ pc' = "returned"
  /\ UNCHANGED <<fnVars, deployVars, log, prompts, remoteFiles, updateVars>>

\* catch (error) { spinner.fail(...); console.error(error); }
Catch ==
  /\ pc = "catch"
  /\ pc' = "finally"
  /\ UNCHANGED <<fnVars, deployVars, log, prompts, remoteFiles, updateVars>>

\* finally { ssh.dispose(); }
Teardown ==
  /\ pc = "finally"
  /\ log' = Append(log, Entry("dispose", TRUE))
  /\ session' = "closed"
  /\ pc' = "returned"
  /\ UNCHANGED <<fnVars, options, host, privateKeyPath, project, pullCode, exitCode, summary, prompts>>
  /\ UNCHANGED <<remoteFiles, updateVars>>

\* deploy() has returned and nothing is pending: the process ends with the
\* default exit code, nothing in the source sets another one
ProcessEnd ==
  /\ pc = "returned"
  /\ pc' = "exited"
  /\ exitCode' = 0
  /\ UNCHANGED <<fnVars, options, host, privateKeyPath, project, session, pullCode, summary, log, prompts>>
  /\ UNCHANGED <<remoteFiles, updateVars>>

Next ==
  \/ ResolveProject
  \/ ValidateProject
  \/ LoadCredentials
  \/ connectToServer
  \/ Whoami
  \/ SudoI
  \/ GetSafeDirs
  \/ AddSafeDir
  \/ Chown
  \/ Pull
  \/ MenuPrismaGenerate
  \/ MenuPrismaDbPush
  \/ MenuBuild
  \/ MenuUpdateEnv
  \/ MenuContinue
  \/ Probe
  \/ ReplaceIssue
  \/ ReplaceDropped
  \/ ReplaceFilter
  \/ ReplaceEcho
  \/ ReplaceMv
  \/ AppendLine
  \/ LoopBack
  \/ FrameworkPrisma
  \/ FrameworkBuild
  \/ Restart
  \/ generateDeploymentSummary
  \/ Catch
  \/ Teardown
  \/ ProcessEnd

Spec == Init /\ [][Next]_vars

(***************************************************************************)
(* updateRemoteEnv on its own: the run stands at the menu of an            *)
(* interactive deployment of demo, the session is open, and the remote     *)
(* .env is any file of the bounded set                                     *)
(***************************************************************************)
AtMenuLog ==
  LET e(op) == [op |-> op, project |-> Demo, ok |-> TRUE]
  IN  <<e("connect"), e("whoami"), e("sudo -i"),
        e("git config --get-all safe.directory"), e("sudo chown"),
        e("git pull origin staging")>>

InitEnv ==
  /\ options = [project |-> Demo, framework |-> Null, ai |-> FALSE, yes |-> FALSE]
  /\ project = Demo
  /\ host = <<"x">>
  /\ privateKeyPath = <<"x">>
  /\ pc = "menu"
  /\ session = "open"
  /\ log = AtMenuLog
  /\ pullCode = 0
  /\ exitCode = NoStatus
  /\ env \in EnvFiles
  /\ tmp = NoFile
  /\ prompts = 0
  /\ summary = "none"
  /\ ukey = Null
  /\ uval = Null
  /\ ures = "idle"
  /\ envStart = NoFile
  /\ tmpStart = NoFile
  /\ logStart = 0
  /\ prev = NoCall
  /\ arg = NoArg
  /\ result = NoResult

NextEnv ==
  \/ CallUpdateEnv
  \/ Probe
  \/ ReplaceIssue
  \/ ReplaceDropped
  \/ ReplaceFilter
  \/ ReplaceEcho
  \/ ReplaceMv
  \/ AppendLine
  \/ LoopBack

SpecEnv == InitEnv /\ [][NextEnv]_vars

(***************************************************************************)
(* The pure helpers on their own: deploy() has not begun, a helper is      *)
(* applied to an input of a bounded set                                    *)
(***************************************************************************)
ShellChars == {"a", SQ, "*", "$", ";", BS, " "}
NameChars == {"a", "Z", "0", ".", "_", "-", "/", " ", ";"}

MyProject == <<"m", "y", ".", "p", "r", "o", "j", "e", "c", "t", "-", "1", "_", "a">>
DotDotEtc == <<".", ".", "/", "e", "t", "c">>
ASpaceB == <<"a", " ", "b">>
RmRf == <<"a", ";", "r", "m", " ", "-", "r", "f", " ", "/">>
ProjectNames == SeqsUpTo(NameChars, MaxStr) \cup {MyProject, DotDotEtc, ASpaceB, RmRf}

UrlSshBare == <<"g", "@", "h", ":", "O", "/", "R">>
UrlHttpsGit == UrlHttps \o DotGit
UrlExtra == UrlHttps \o <<"/", "x">>
UrlSlash == UrlHttps \o <<"/">>
UrlPath == <<"/", "s", "/", "R">>
UrlName == <<"R">>
\* what git prints for remote.origin.url, or its failure
GitOutputs ==
  {[ok |-> FALSE, out |-> <<>>]}
  \cup {[ok |-> TRUE, out |-> u \o nl] :
          u \in {UrlSsh, UrlSshBare, UrlHttps, UrlHttpsGit, UrlShort, UrlExtra,
                 UrlSlash, UrlPath, UrlName, <<>>},
          nl \in {<<>>, <<"\n">>}}

FnInputs ==
  {[fn |-> "escapeShellArg", ok |-> TRUE, s |-> x] : x \in SeqsUpTo(ShellChars, MaxStr)}
  \cup {[fn |-> "isValidProjectName", ok |-> TRUE, s |-> x] : x \in ProjectNames}
  \cup {[fn |-> "getGitRepoInfo", ok |-> g.ok, s |-> g.out] : g \in GitOutputs}

InitFn ==
  /\ options = [project |-> Null, framework |-> Null, ai |-> FALSE, yes |-> FALSE]
  /\ project = Null
  /\ host = Null
  /\ privateKeyPath = Null
  /\ pc = "start"
  /\ session = "none"
  /\ log = <<>>
  /\ pullCode = NoStatus
  /\ exitCode = NoStatus
  /\ env = NoFile
  /\ tmp = NoFile
  /\ prompts = 0
  /\ summary = "none"
  /\ ukey = Null
  /\ uval = Null
  /\ ures = "idle"
  /\ envStart = NoFile
  /\ tmpStart = NoFile
  /\ logStart = 0
  /\ prev = NoCall
  /\ arg \in FnInputs
  /\ result = NoResult

Returns(str, bool) ==
  /\ result = NoResult
  /\ result' = [fn |-> arg.fn, str |-> str, bool |-> bool]
  /\ UNCHANGED <<arg, deployVars, pc, log, prompts, remoteFiles, updateVars>>

ApplyEscapeShellArg ==
  /\ arg.fn = "escapeShellArg"
  /\ Returns(escapeShellArg(arg.s), FALSE)

ApplyIsValidProjectName ==
  /\ arg.fn = "isValidProjectName"
  /\ Returns(Null, isValidProjectName(arg.s))

ApplyGetGitRepoInfo ==
  /\ arg.fn = "getGitRepoInfo"
  /\ Returns(getGitRepoInfo([ok |-> arg.ok, out |-> arg.s]), FALSE)

NextFn ==
  \/ ApplyEscapeShellArg
  \/ ApplyIsValidProjectName
  \/ ApplyGetGitRepoInfo

SpecFn == InitFn /\ [][NextFn]_vars

(***************************************************************************)
(* Properties                                                              *)
(***************************************************************************)
Ops(l) == [i \in 1..Len(l) |-> l[i].op]

AllOk(l) == \A i \in 1..Len(l) : l[i].ok

Issued(op) == \E i \in 1..Len(log) : log[i].op = op

\* the key pattern ^[A-Za-z_][A-Za-z0-9_]*$ of the specification
MatchesKeyPattern(k) ==
  /\ k # <<>>
  /\ Head(k) \in Lower \cup Upper \cup {"_"}
  /\ \A i \in 1..Len(k) : k[i] \in Lower \cup Upper \cup Digit \cup {"_"}

\* the line KEY=VALUE as it has to stand in the file
WantedLine == ukey \o <<"=">> \o uval

HasKeyLine(f, k) == f.exists /\ KeyLines(f.lines, k) # <<>>

\* updateRemoteEnv has returned and no command of it failed at the
\* session level
Completed == pc = "updated" /\ ures \in {"ok", "stopped"}

\* C1: when .env has a line starting with KEY=, after updateRemoteEnv has
\* completed the file is the other lines in their order followed by the
\* single line KEY=VALUE
C1_ReplaceMovesKeyLast ==
  (Completed /\ MatchesKeyPattern(ukey) /\ HasKeyLine(envStart, ukey))
    => env = File(OtherLines(envStart.lines, ukey) \o <<WantedLine>>)

\* C2: when .env exists (possibly empty) and has no line starting with
\* KEY=, after updateRemoteEnv has completed the file is the former lines
\* followed by the one line KEY=VALUE
C2_AppendsWhenAbsent ==
  (Completed /\ MatchesKeyPattern(ukey) /\ envStart.exists /\ ~HasKeyLine(envStart, ukey))
    => env = File(envStart.lines \o <<WantedLine>>)

\* C3: a second call with the same key and value right after a completed
\* first one leaves the content the first one produced, and that content
\* has exactly one line for KEY, namely KEY=VALUE
C3_Idempotent ==
  (/\ Completed
   /\ MatchesKeyPattern(ukey)
   /\ prev.res \in {"ok", "stopped"}
   /\ prev.key = ukey
   /\ prev.val = uval
   /\ prev.after.exists)
    => (env = prev.after /\ KeyLines(env.lines, ukey) = <<WantedLine>>)

C5_InvalidKeyNoRemoteAction ==
  (ures # "idle" /\ ~MatchesKeyPattern(ukey))
    => /\ ures = "invalid"
       /\ pc \in {"updated", "menu"}
       /\ Len(log) = logStart
       /\ env = envStart
       /\ tmp = tmpStart

C5_Witness ==
  /\ pc = "updated"
  /\ ures = "invalid"
  /\ ukey = KeyBad
  /\ env.exists

\* the five steps the end-to-end scenario names
ScenarioOps == {"connect", "git pull origin staging", "npx prisma generate",
                "yarn build", "pm2 restart"}

\* a finished non-interactive run of demo / nestjs on a session that
\* connected and executed every command
ScenarioRun ==
  /\ pc = "exited"
  /\ options.yes
  /\ project = Demo
  /\ options.framework = NestJs
  /\ log # <<>>
  /\ AllOk(log)

\* C6: such a run issues connect, git pull, prisma generate, build and the
\* restart of demo in this order, each once, and ends with exit code 0,
\* whatever the exit status of the pull
C6_ScenarioOrder ==
  ScenarioRun
    => /\ SelectSeq(Ops(log), LAMBDA op : op \in ScenarioOps)
            = <<"connect", "git pull origin staging", "npx prisma generate",
                "yarn build", "pm2 restart">>
       /\ \A i \in 1..Len(log) : log[i].op = "pm2 restart" => log[i].project = Demo
       /\ exitCode = 0

C6_Witness == ScenarioRun /\ pullCode = 1 /\ exitCode = 0 /\ Issued("pm2 restart")

\* C7: a run whose connection attempt failed ends with exit code 1
C7_ConnectFailureExits1 ==
  (pc = "exited" /\ log # <<>> /\ log[1].op = "connect" /\ ~log[1].ok)
    => exitCode = 1

\* C8: nothing is asked of the session unless the project is resolved, its
\* name is valid and both credentials are set; a run that ends with the
\* project unresolved, the name invalid or a credential missing has exit
\* code 1, and a run with exit code 1 never touched the session
C8_NoSessionBeforeValidation ==
  /\ (log # <<>> \/ session # "none")
       => /\ project # Null
          /\ isValidProjectName(project)
          /\ host # Null
          /\ privateKeyPath # Null
  /\ (/\ pc = "exited"
      /\ \/ project = Null
         \/ ~isValidProjectName(project)
         \/ host = Null
         \/ privateKeyPath = Null)
       => exitCode = 1
  /\ exitCode = 1 => (log = <<>> /\ session = "none")
  /\ project = Null => pc \in {"start", "exited"}
  /\ ~isValidProjectName(project) => pc \in {"start", "validate", "exited"}

C8_Witness ==
  /\ pc = "exited"
  /\ exitCode = 1
  /\ options.project = Null
  /\ project = BadProject
  /\ log = <<>>

\* C9: the session is released at most once, nothing is asked of it after
\* the release, a run that reached the Connect step and has ended released
\* it exactly once, and after a failed connect nothing but the release
\* follows
C9_ReleasedExactlyOnce ==
  /\ \A i \in 1..Len(log) : log[i].op = "dispose" => i = Len(log)
  /\ (session = "closed") <=> Issued("dispose")
  /\ (pc = "exited" /\ log # <<>>) => (log[Len(log)].op = "dispose" /\ session = "closed")
  /\ (log # <<>> /\ ~log[1].ok) => \A i \in 2..Len(log) : log[i].op = "dispose"

C9_Witness ==
  /\ pc = "exited"
  /\ session = "closed"
  /\ Len(log) > 2
  /\ log[Len(log) - 1].op = "pm2 restart"
  /\ ~log[Len(log) - 1].ok

\* the framework steps the specification prescribes for a framework name
ExpectedFrameworkOps ==
  IF options.framework \in {NestJs, NestJsMixed}
  THEN <<"npx prisma generate", "yarn build">>
  ELSE IF options.framework = ExpressJs
       THEN <<"npx prisma generate">>
       ELSE <<>>

\* what was issued after the pull
RECURSIVE AfterPull(_)
AfterPull(ops) ==
  IF ops = <<>> THEN <<>>
  ELSE IF Head(ops) = "git pull origin staging" THEN Tail(ops)
  ELSE AfterPull(Tail(ops))

\* C10: in a finished non-interactive run whose commands all executed,
\* what follows the pull is the steps of the framework (nestjs in any
\* case: prisma generate, build; expressjs: prisma generate; anything
\* else or none: nothing), then the restart, then the release
C10_FrameworkSteps ==
  (pc = "exited" /\ options.yes /\ log # <<>> /\ AllOk(log))
    => AfterPull(Ops(log)) = ExpectedFrameworkOps \o <<"pm2 restart", "dispose">>

C10_Witness ==
  /\ pc = "exited"
  /\ options.yes
  /\ options.framework = NestJsMixed
  /\ AllOk(log)
  /\ Issued("yarn build")
  /\ Issued("pm2 restart")

\* the argument with every single quote replaced by '\''
RECURSIVE QuotesReplaced(_)
QuotesReplaced(str) ==
  IF str = <<>> THEN <<>>
  ELSE (IF Head(str) = SQ THEN <<SQ, BS, SQ, SQ>> ELSE <<Head(str)>>)
         \o QuotesReplaced(Tail(str))

\* C11: escapeShellArg(s) is s between two single quotes with every
\* embedded single quote replaced by '\'' and nothing else changed, and the
\* shell reads that token as exactly one argument, equal to s
C11_EscapeRoundTrip ==
  result.fn = "escapeShellArg"
    => /\ result.str = <<SQ>> \o QuotesReplaced(arg.s) \o <<SQ>>
       /\ ShellWords(result.str) = [ok |-> TRUE, words |-> <<arg.s>>]

C11_Witness ==
  /\ result.fn = "escapeShellArg"
  /\ arg.s = <<SQ, "*", "$">>
  /\ result.str = <<SQ, SQ, BS, SQ, SQ, "*", "$", SQ>>

\* the characters a project name may consist of
SafeNameChars ==
  {"a", "b", "c", "d", "e", "f", "g", "h", "i", "j", "k", "l", "m",
   "n", "o", "p", "q", "r", "s", "t", "u", "v", "w", "x", "y", "z",
   "A", "B", "C", "D", "E", "F", "G", "H", "I", "J", "K", "L", "M",
   "N", "O", "P", "Q", "R", "S", "T", "U", "V", "W", "X", "Y", "Z",
   "0", "1", "2", "3", "4", "5", "6", "7", "8", "9", ".", "_", "-"}

\* C12: isValidProjectName is true exactly for the non-empty names made
\* only of ASCII letters, digits, '.', '_' and '-'
C12_ValidNameExactly ==
  result.fn = "isValidProjectName"
    => (result.bool <=> /\ arg.s # <<>>
                        /\ \A i \in 1..Len(arg.s) : arg.s[i] \in SafeNameChars)

C12_Witness ==
  /\ result.fn = "isValidProjectName"
  /\ arg.s = <<"a", "/", "Z">>
  /\ ~result.bool

C12_WitnessAccepted ==
  /\ result.fn = "isValidProjectName"
  /\ arg.s = MyProject
  /\ result.bool

\* a part of a remote URL: not empty, and free of the separators
IsUrlPart(str) == str # <<>> /\ \A i \in 1..Len(str) : str[i] \notin {"/", ":", "@"}

\* the repository part with an optional ".git" taken off
WithoutDotGit(str) ==
  IF Len(str) > 4 /\ SubSeq(str, Len(str) - 3, Len(str)) = <<".", "g", "i", "t">>
  THEN SubSeq(str, 1, Len(str) - 4)
  ELSE str

\* owner/repo of  <lead><owner>/<repo>  where lead is "user@host:" or
\* "https://host/" ; the empty set when the URL is of neither form
SlugsOfForm(url) ==
  {SubSeq(url, o, j - 1) \o <<"/">> \o WithoutDotGit(SubSeq(url, j + 1, Len(url))) :
     <<o, j>> \in
       {<<o, j>> \in (1..Len(url)) \X (1..Len(url)) :
          /\ o < j
          /\ url[j] = "/"
          /\ IsUrlPart(SubSeq(url, o, j - 1))
          /\ IsUrlPart(SubSeq(url, j + 1, Len(url)))
          /\ \/ \E a \in 2..(o - 3) :
                  /\ url[a] = "@"
                  /\ url[o - 1] = ":"
                  /\ IsUrlPart(SubSeq(url, 1, a - 1))
                  /\ IsUrlPart(SubSeq(url, a + 1, o - 2))
             \/ /\ o > 10
                /\ SubSeq(url, 1, 8) = <<"h", "t", "t", "p", "s", ":", "/", "/">>
                /\ url[o - 1] = "/"
                /\ IsUrlPart(SubSeq(url, 9, o - 2))}}

\* C13: getGitRepoInfo returns owner/repo exactly for a remote URL of the
\* form user@host:owner/repo or https://host/owner/repo (an optional .git
\* taken off), and none for every other URL and when git fails
C13_SlugExactly ==
  result.fn = "getGitRepoInfo"
    => LET slugs == IF arg.ok THEN SlugsOfForm(Trim(arg.s)) ELSE {}
       IN  IF slugs = {} THEN result.str = Null ELSE result.str \in slugs

\* what the current / last call of updateRemoteEnv asked of the session
CallLog == SubSeq(log, logStart + 1, Len(log))

\* exit status of the probe  grep "^KEY=" .env  of that call
ProbeStatus == GrepStatus(envStart, KeyLines(envStart.lines, ukey))

\* C14: updateRemoteEnv issues the replace command only after a probe that
\* exited 0, the append only after a probe that exited with another status,
\* and neither after a probe that failed at the session level
C14_BranchesOnProbeStatus ==
  \A i \in DOMAIN CallLog :
    /\ CallLog[i].op = "replace" => CallLog[1].ok /\ ProbeStatus = 0
    /\ CallLog[i].op = "append" => CallLog[1].ok /\ ProbeStatus # 0

\* C15: in interactive mode no framework step is issued after the loop:
\* once 'Continue Deployment' is chosen the run goes to the restart without
\* asking anything else of the session
C15_InteractiveSkipsFrameworkTasks ==
  [][(~options.yes /\ pc \in {"framework", "fwBuild"}) => log' = log]_vars

\* C16: once a remote command has failed at the session level nothing but
\* the release of the session follows it, and the run does not end without
\* that release
C16_SessionFailureAborts ==
  /\ \A i \in DOMAIN log :
       ~log[i].ok => \A j \in (i + 1)..Len(log) : log[j].op = "dispose"
  /\ (pc \in {"returned", "exited"} /\ \E i \in DOMAIN log : ~log[i].ok)
       => session = "closed"

\* C17: a call of updateRemoteEnv that began without a .env.tmp has left
\* none behind when it returns, whatever .env was at its start
C17_NoTmpLeftBehind ==
  (pc = "updated" /\ ~tmpStart.exists) => ~tmp.exists

====
